---- MODULE Spec2Model ----
(***************************************************************************)
(* The utility functions of python_section_1.py and python_section_2.py.   *)
(* A function is called from the idle state with arguments drawn from      *)
(* bounded sets (reverse_by_n_elements may be fed its own result once);    *)
(* the state records the arguments as passed, the caller's DataFrame       *)
(* object as the callee leaves it, and the outcome.                        *)
(*                                                                         *)
(* Representation:                                                         *)
(*   - a Python list or tuple is a sequence; a str is a sequence of        *)
(*     one-character strings, so that f-string concatenation is \o;        *)
(*   - a Python dict is the sequence of its <<key, value>> items in        *)
(*     insertion order, keys distinct;                                     *)
(*   - a DataFrame is a function from column names to columns (sequences   *)
(*     of cells, one per row);                                             *)
(*   - an instant is a number of minutes; floats with one decimal (the     *)
(*     toll multipliers) are stored in tenths.                             *)
(***************************************************************************)
EXTENDS Integers, Sequences, FiniteSets

VARIABLES pc, op, args, ret, df, calls

vars == <<pc, op, args, ret, df, calls>>

(* ---------------------------- bounds ----------------------------------- *)

MaxListLen == 4
MaxChunk == 5
MaxEntries == 3
MaxPermLen == 3
MaxN == 2
MaxRows == 2

(* ------------------------ Python built-ins ----------------------------- *)

Min(a, b) == IF a <= b THEN a ELSE b

Max(a, b) == IF a >= b THEN a ELSE b

\* reversed(seq) / seq[::-1]
Reversed(s) == [i \in 1..Len(s) |-> s[Len(s) + 1 - i]]

\* seq[i:j] with Python's index normalisation: a negative index counts from
\* the end, and both ends are clamped to 0..len(seq).
SliceIndex(s, i) == IF i < 0 THEN Max(Len(s) + i, 0) ELSE Min(i, Len(s))

Slice(s, i, j) == SubSeq(s, SliceIndex(s, i) + 1, SliceIndex(s, j))

\* range(start, stop, step) for step /= 0, as the sequence of its values.
\* range() raises ValueError for step = 0: callers test that first.
RECURSIVE PyRange(_, _, _)
PyRange(start, stop, step) ==
    IF (step > 0 /\ start < stop) \/ (step < 0 /\ start > stop)
    THEN <<start>> \o PyRange(start + step, stop, step)
    ELSE <<>>

Returned(v) == [status |-> "ok", value |-> v]

Raised(e) == [status |-> e, value |-> <<>>]

NoFrame == [c \in {} |-> <<>>]

(* --------------------- reverse_by_n_elements --------------------------- *)

RECURSIVE ReversedGroups(_, _, _)
\* [item for group in (lst[i:i + n] for i in starts) for item in reversed(group)]
ReversedGroups(lst, starts, n) ==
    IF starts = <<>> THEN <<>>
    ELSE Reversed(Slice(lst, Head(starts), Head(starts) + n))
             \o ReversedGroups(lst, Tail(starts), n)

\* a plausible slip: the trailing chunk shorter than n is left out
reverse_by_n_elements_dropShort(lst, n) ==
    IF n = 0 THEN Raised("ValueError")
    ELSE Returned(ReversedGroups(lst, PyRange(0, Len(lst) - n + 1, n), n))

\* a plausible slip: the slice end is off by one, so chunks overlap
reverse_by_n_elements_overlap(lst, n) ==
    IF n = 0 THEN Raised("ValueError")
    ELSE Returned(ReversedGroups(lst, PyRange(0, Len(lst), n), n + 1))

reverse_by_n_elements(lst, n) ==
    IF n = 0 THEN Raised("ValueError")
    ELSE Returned(ReversedGroups(lst, PyRange(0, Len(lst), n), n))

ListItems == 1..3

Lists == UNION {[1..m -> ListItems] : m \in 0..MaxListLen}

ChunkSizes == (0 - MaxChunk)..MaxChunk

Call_reverse_by_n_elements ==
    /\ pc = "idle"
    /\ \E lst \in Lists, n \in ChunkSizes :
        /\ args' = [lst |-> lst, n |-> n, orig |-> lst]
        /\ ret' = reverse_by_n_elements(lst, n)
    /\ op' = "reverse_by_n_elements"
    /\ pc' = "done"
    /\ calls' = 1
    /\ UNCHANGED df

\* the caller feeds the returned list back in with the same n
Call_reverse_by_n_elements_again ==
    /\ pc = "done"
    /\ op = "reverse_by_n_elements"
    /\ calls = 1
    /\ ret.status = "ok"
    /\ args' = [args EXCEPT !.lst = ret.value]
    /\ ret' = reverse_by_n_elements(ret.value, args.n)
    /\ calls' = 2
    /\ UNCHANGED <<pc, op, df>>

(* ---------------------------- flatten_dict ----------------------------- *)

\* values held by a dict: an int, a list (opaque: never looked into) or a dict
IntValue(n) == [kind |-> "int", val |-> n, items |-> <<>>]

ListValue(id) == [kind |-> "list", val |-> id, items |-> <<>>]

DictValue(items) == [kind |-> "dict", val |-> 0, items |-> items]

\* isinstance(value, dict)
IsDict(value) == value.kind = "dict"

\* flat_dict[new_key] = value
SetItem(d, k, v) == [x \in DOMAIN d \cup {k} |-> IF x = k THEN v ELSE d[x]]

EmptyDict == [x \in {} |-> 0]

RECURSIVE flatten(_, _, _, _)
\* the inner flatten(current_dict, parent_key), with the enclosing sep and the
\* flat_dict written so far made explicit; returns flat_dict afterwards
flatten(current_dict, parent_key, sep, flat_dict) ==
    IF current_dict = <<>> THEN flat_dict
    ELSE LET key == Head(current_dict)[1]
             value == Head(current_dict)[2]
             new_key == IF parent_key /= <<>> THEN parent_key \o sep \o key ELSE key
             after == IF IsDict(value)
                      THEN flatten(value.items, new_key, sep, flat_dict)
                      ELSE SetItem(flat_dict, new_key, value)
         IN flatten(Tail(current_dict), parent_key, sep, after)

flatten_dict(nested_dict, sep) == flatten(nested_dict, <<>>, sep, EmptyDict)

DictKeys == {<<>>, <<"a">>, <<"b">>}

Separators == {<<".">>, <<"_">>}

LeafValues == {IntValue(1), IntValue(2), ListValue(1)}

KeysOf(items) == {items[i][1] : i \in 1..Len(items)}

RECURSIVE DictsOfSize(_)
\* the dicts that hold exactly n items, nested ones counted; the keys of one
\* dict are distinct
DictsOfSize(n) ==
    IF n = 0 THEN {<<>>}
    ELSE UNION {
           { <<x[1]>> \o x[2] :
               x \in { y \in {<<k, v>> : k \in DictKeys,
                                         v \in (IF c = 1 THEN LeafValues ELSE {})
                                               \cup {DictValue(d) : d \in DictsOfSize(c - 1)}}
                              \X DictsOfSize(n - c) :
                        y[1][1] \notin KeysOf(y[2]) } } : c \in 1..n }

NestedDicts == UNION {DictsOfSize(n) : n \in 0..MaxEntries}

Call_flatten_dict ==
    /\ pc = "idle"
    /\ \E nested_dict \in NestedDicts, sep \in Separators :
        /\ args' = [nested_dict |-> nested_dict, sep |-> sep]
        /\ ret' = Returned(flatten_dict(nested_dict, sep))
    /\ op' = "flatten_dict"
    /\ pc' = "done"
    /\ calls' = 1
    /\ UNCHANGED df

(* ------------------------- unique_permutations ------------------------- *)

\* seq without its i-th element
Without(s, i) == SubSeq(s, 1, i - 1) \o SubSeq(s, i + 1, Len(s))

RECURSIVE permutations(_)
RECURSIVE PermutationsFrom(_, _)
\* itertools.permutations(nums): every ordering of the positions of nums, as
\* tuples of the elements at those positions, in lexicographic position order
permutations(nums) ==
    IF nums = <<>> THEN << <<>> >> ELSE PermutationsFrom(nums, 1)

\* the tuples whose first element is taken at position i or later
PermutationsFrom(nums, i) ==
    IF i > Len(nums) THEN <<>>
    ELSE LET tails == permutations(Without(nums, i))
         IN [k \in 1..Len(tails) |-> <<nums[i]>> \o tails[k]]
                \o PermutationsFrom(nums, i + 1)

RECURSIVE set(_)
\* set(iterable): the elements in order of first insertion, equal ones once
set(tuples) ==
    IF tuples = <<>> THEN <<>>
    ELSE LET before == set(SubSeq(tuples, 1, Len(tuples) - 1))
             last == tuples[Len(tuples)]
         IN IF \E k \in 1..Len(before) : before[k] = last
            THEN before ELSE Append(before, last)

\* list(map(list, s)): the iteration order of a set is unspecified; it is the
\* insertion order rotated by an offset the hash layout picks
list(s, offset) ==
    [k \in 1..Len(s) |-> s[((k - 1 + offset) % Len(s)) + 1]]

\* a plausible slip: the set() is left out
unique_permutations_noSet(nums, offset) == list(permutations(nums), offset)

unique_permutations(nums, offset) == list(set(permutations(nums)), offset)

Nums == 1..3

NumLists == UNION {[1..m -> Nums] : m \in 0..MaxPermLen}

Call_unique_permutations ==
    /\ pc = "idle"
    /\ \E nums \in NumLists :
        \E offset \in 0..(Len(set(permutations(nums))) - 1) :
            /\ args' = [nums |-> nums]
            /\ ret' = Returned(unique_permutations(nums, offset))
    /\ op' = "unique_permutations"
    /\ pc' = "done"
    /\ calls' = 1
    /\ UNCHANGED df

(* --------------------- rotate_and_multiply_matrix ---------------------- *)

\* zip(*rows): one tuple per column, as many as the shortest row has
Zip(rows) ==
    LET width == IF rows = <<>> THEN 0
                 ELSE CHOOSE w \in {Len(rows[r]) : r \in 1..Len(rows)} :
                          \A r \in 1..Len(rows) : w <= Len(rows[r])
    IN [c \in 1..width |-> [r \in 1..Len(rows) |-> rows[r][c]]]

\* rotated = [list(row) for row in zip(*matrix[::-1])]
Rotated(matrix) == Zip(Reversed(matrix))

\* a plausible slip: the factor is the index sum the cell had before rotation
rotate_and_multiply_matrix_preRotation(matrix) ==
    LET rotated == Rotated(matrix)
        rows == Len(rotated)
        cols == IF rows = 0 THEN 0 ELSE Len(rotated[1])
    IN [i \in 1..rows |->
           [j \in 1..cols |-> rotated[i][j] * ((rows - j) + (i - 1))]]

\* the loops of lines 116-121; i and j are 1-based here, so the factor
\* i + j of the code is (i - 1) + (j - 1)
rotate_and_multiply_matrix(matrix) ==
    LET rotated == Rotated(matrix)
        rows == Len(rotated)
        cols == IF rows = 0 THEN 0 ELSE Len(rotated[1])
    IN [i \in 1..rows |->
           [j \in 1..cols |-> rotated[i][j] * ((i - 1) + (j - 1))]]

Cells == {-1, 1, 2}

SquareMatrices == UNION {[1..m -> [1..m -> Cells]] : m \in 0..MaxN}

Call_rotate_and_multiply_matrix ==
    /\ pc = "idle"
    /\ \E matrix \in SquareMatrices :
        /\ args' = [matrix |-> matrix]
        /\ ret' = Returned(rotate_and_multiply_matrix(matrix))
    /\ op' = "rotate_and_multiply_matrix"
    /\ pc' = "done"
    /\ calls' = 1
    /\ UNCHANGED df

(* ----------------------------- DataFrames ------------------------------ *)

\* df[c] = column: the frame object itself gains or replaces column c
SetColumn(frame, c, column) ==
    [x \in DOMAIN frame \cup {c} |-> IF x = c THEN column ELSE frame[x]]

\* df[[...]]: a new frame holding the named columns
Select(frame, columns) == [x \in columns |-> frame[x]]

\* a float cell; NaN marks a missing value
Float(v) == [nan |-> FALSE, v |-> v]

NaN == [nan |-> TRUE, v |-> 0]

\* a timestamp cell is the text of an instant (kind "str") or a parsed
\* Timestamp; t is the instant in minutes
Minutes(h, m) == h * 60 + m

Day == Minutes(24, 0)

\* timedelta(days=d)
timedelta(d) == d * Day

\* pd.to_datetime on one cell
to_datetime(cell) == [kind |-> "Timestamp", t |-> cell.t]

\* pd.to_datetime(column)
to_datetime_column(column) == [r \in 1..Len(column) |-> to_datetime(column[r])]

\* Timestamp.time(): the time of day, in minutes since midnight
time_of(ts) == ts.t % Day

Instants ==
    {Minutes(0, 0), Minutes(5, 59), Minutes(6, 0), Minutes(12, 0), Minutes(18, 0),
     Minutes(23, 59), timedelta(1), timedelta(1) + Minutes(12, 0),
     timedelta(7) - 1, timedelta(7)}

(* -------------------------- calculate_toll_rate ------------------------ *)

\* the toll_rates dict of lines 85-89, in tenths
toll_rates == [car |-> 10, truck |-> 15, bus |-> 12]

\* Series.map(dict) on one cell: NaN for a key the dict lacks
MapCell(d, key) == IF key \in DOMAIN d THEN Float(d[key]) ELSE NaN

\* the product of two float cells; NaN propagates
Times(a, b) == IF a.nan \/ b.nan THEN NaN ELSE Float(a.v * b.v)

\* the frame object after lines 91-92
calculate_toll_rate_frame(frame) ==
    LET rows == 1..Len(frame["id_start"])
        with_type == SetColumn(frame, "vehicle_type",
                         [r \in rows |-> MapCell(toll_rates, frame["id_start"][r])])
    IN SetColumn(with_type, "toll_rate",
           [r \in rows |-> Times(with_type["distance"][r], with_type["vehicle_type"][r])])

calculate_toll_rate(frame) ==
    Select(calculate_toll_rate_frame(frame), {"id_start", "id_end", "toll_rate"})

StartIds == {"car", "truck", "1001400"}

EndIds == {"1001402"}

Distances == {Float(0), Float(97)}

DistanceFrames ==
    UNION {[id_start : [1..m -> StartIds], id_end : [1..m -> EndIds],
            distance : [1..m -> Distances]] : m \in 1..MaxRows}

Call_calculate_toll_rate ==
    /\ pc = "idle"
    /\ \E frame \in DistanceFrames :
        /\ args' = [df |-> frame]
        /\ df' = calculate_toll_rate_frame(frame)
        /\ ret' = Returned(calculate_toll_rate(frame))
    /\ op' = "calculate_toll_rate"
    /\ pc' = "done"
    /\ calls' = 1

(* -------------------- calculate_time_based_toll_rates ------------------ *)

\* a table with the same entries, sorted by threshold, latest first
time_based_rates_sorted ==
    << [time |-> <<23, 59>>, rate |-> 10],
       [time |-> <<18, 0>>, rate |-> 20],
       [time |-> <<12, 0>>, rate |-> 15],
       [time |-> <<6, 0>>, rate |-> 10],
       [time |-> <<0, 0>>, rate |-> 5] >>

\* the time_based_rates dict of lines 106-112 as its items in declaration
\* order; the key 'HH:MM' is <<HH, MM>>, the rate is in tenths
time_based_rates ==
    << [time |-> <<0, 0>>, rate |-> 5],
       [time |-> <<6, 0>>, rate |-> 10],
       [time |-> <<12, 0>>, rate |-> 15],
       [time |-> <<18, 0>>, rate |-> 20],
       [time |-> <<23, 59>>, rate |-> 10] >>

\* pd.to_datetime('HH:MM').time()
threshold_time(key) == Minutes(key[1], key[2])

RECURSIVE next_flipped(_, _, _)
\* a plausible slip: the comparison is the other way round
next_flipped(items, x, default) ==
    IF items = <<>> THEN default
    ELSE IF x <= threshold_time(Head(items).time) THEN Head(items).rate
    ELSE next_flipped(Tail(items), x, default)

RECURSIVE next(_, _, _)
\* next((rate for time, rate in items if x >= threshold), default)
next(items, x, default) ==
    IF items = <<>> THEN default
    ELSE IF x >= threshold_time(Head(items).time) THEN Head(items).rate
    ELSE next(Tail(items), x, default)

\* the frame object after lines 114-115
calculate_time_based_toll_rates_frame(frame) ==
    LET rows == 1..Len(frame["timestamp"])
        with_time == SetColumn(frame, "time",
                         [r \in rows |-> time_of(to_datetime(frame["timestamp"][r]))])
    IN SetColumn(with_time, "toll_rate",
           [r \in rows |-> Float(next(time_based_rates, with_time["time"][r], 10))])

calculate_time_based_toll_rates(frame) ==
    Select(calculate_time_based_toll_rates_frame(frame),
           {"id_start", "id_end", "toll_rate"})

TimestampColumns(m) ==
    UNION {[1..m -> {[kind |-> k, t |-> t] : t \in Instants}] :
               k \in {"str", "Timestamp"}}

TollFrames ==
    UNION {[id_start : [1..m -> StartIds], id_end : [1..m -> EndIds],
            timestamp : TimestampColumns(m)] : m \in 1..MaxRows}

Call_calculate_time_based_toll_rates ==
    /\ pc = "idle"
    /\ \E frame \in TollFrames :
        /\ args' = [df |-> frame]
        /\ df' = calculate_time_based_toll_rates_frame(frame)
        /\ ret' = Returned(calculate_time_based_toll_rates(frame))
    /\ op' = "calculate_time_based_toll_rates"
    /\ pc' = "done"
    /\ calls' = 1

(* ------------------------------ time_check ----------------------------- *)

\* the frame object after line 130
time_check_frame(frame) ==
    SetColumn(frame, "timestamp", to_datetime_column(frame["timestamp"]))

\* the keys of df.groupby(['id', 'id_2'])
GroupKeys(frame) == {<<frame["id"][r], frame["id_2"][r]>> : r \in 1..Len(frame["id"])}

\* group['timestamp'] for the group of key g
GroupInstants(frame, g) ==
    {frame["timestamp"][r].t :
        r \in {q \in 1..Len(frame["id"]) : <<frame["id"][q], frame["id_2"][q]>> = g}}

SetMin(S) == CHOOSE x \in S : \A y \in S : x <= y

SetMax(S) == CHOOSE x \in S : \A y \in S : x >= y

\* the lambda of lines 131-134
group_complete(ts) ==
    /\ SetMin(ts) <= SetMin(ts) + timedelta(7)
    /\ SetMax(ts) >= SetMin(ts) + timedelta(1)

time_check(frame) ==
    LET converted == time_check_frame(frame)
    IN [g \in GroupKeys(converted) |-> group_complete(GroupInstants(converted, g))]

Ids == {1, 2}

Ids2 == {-1}

CheckFrames ==
    UNION {[id : [1..m -> Ids], id_2 : [1..m -> Ids2],
            timestamp : TimestampColumns(m)] : m \in 1..MaxRows}

Call_time_check ==
    /\ pc = "idle"
    /\ \E frame \in CheckFrames :
        /\ args' = [df |-> frame]
        /\ df' = time_check_frame(frame)
        /\ ret' = Returned(time_check(frame))
    /\ op' = "time_check"
    /\ pc' = "done"
    /\ calls' = 1

(* ------------------------- specification ------------------------------- *)

Init ==
    /\ pc = "idle"
    /\ op = "none"
    /\ args = <<>>
    /\ ret = Returned(<<>>)
    /\ df = NoFrame
    /\ calls = 0

Next ==
    \/ Call_reverse_by_n_elements
    \/ Call_reverse_by_n_elements_again
    \/ Call_flatten_dict
    \/ Call_unique_permutations
    \/ Call_rotate_and_multiply_matrix
    \/ Call_calculate_toll_rate
    \/ Call_calculate_time_based_toll_rates
    \/ Call_time_check

Spec == Init /\ [][Next]_vars

(* ------------------------------- claims -------------------------------- *)

IsReverse == pc = "done" /\ op = "reverse_by_n_elements"

\* C1: reverse_by_n_elements(lst, n) signals an invalid-argument failure for
\* every chunk size n <= 0 and every list, and never returns a list then.
C1_NonPositiveChunkRaises ==
    (IsReverse /\ args.n <= 0) => ret.status = "ValueError"

FrameFunctions ==
    {"calculate_toll_rate", "calculate_time_based_toll_rates", "time_check"}

\* C2: after a call to calculate_toll_rate, calculate_time_based_toll_rates
\* or time_check the caller's frame has the columns and the cell values it
\* had when it was passed in.
C2_CallerFrameUntouched ==
    (pc = "done" /\ op \in FrameFunctions) => df = args.df

C3_Span(frame, g) ==
    LET ts == {frame["timestamp"][r].t :
                 r \in {q \in 1..Len(frame["id"]) :
                          <<frame["id"][q], frame["id_2"][q]>> = g}}
    IN (CHOOSE x \in ts : \A y \in ts : x >= y)
           - (CHOOSE x \in ts : \A y \in ts : x <= y)

\* C3: time_check reports a group True only if its timestamps span at least
\* 7 days (and so at least 24 hours).
C3_TrueOnlyForFullWeek ==
    (pc = "done" /\ op = "time_check") =>
        \A g \in DOMAIN ret.value :
            ret.value[g] => C3_Span(args.df, g) >= 7 * 24 * 60

C4_DeclaredTable ==
    << <<0, 0, 5>>, <<6, 0, 10>>, <<12, 0, 15>>, <<18, 0, 20>>, <<23, 59, 10>> >>

C4_Qualifying(x) ==
    {k \in 1..Len(C4_DeclaredTable) :
         C4_DeclaredTable[k][1] * 60 + C4_DeclaredTable[k][2] <= x}

C4_Expected(x) ==
    IF C4_Qualifying(x) = {} THEN 10
    ELSE C4_DeclaredTable[CHOOSE k \in C4_Qualifying(x) :
                              \A j \in C4_Qualifying(x) : k <= j][3]

C4_TimeOfDay(frame, r) == frame["timestamp"][r].t % (24 * 60)

IsTimeToll == pc = "done" /\ op = "calculate_time_based_toll_rates"

\* C4: every record gets the rate of the first entry, in declaration order,
\* of the table 00:00->0.5, 06:00->1.0, 12:00->1.5, 18:00->2.0, 23:59->1.0
\* whose threshold is <= the record's time of day, and 1.0 only when no
\* entry qualifies.
C4_FirstDeclaredBoundary ==
    IsTimeToll =>
        \A r \in 1..Len(args.df["timestamp"]) :
            ret.value["toll_rate"][r]
                = [nan |-> FALSE, v |-> C4_Expected(C4_TimeOfDay(args.df, r))]

\* a record later than 12:00, where three entries qualify, gets the rate of
\* the entry declared first
C4_Witness ==
    /\ IsTimeToll
    /\ \E r \in 1..Len(args.df["timestamp"]) :
        /\ Cardinality(C4_Qualifying(C4_TimeOfDay(args.df, r))) >= 3
        /\ ret.value["toll_rate"][r].v = C4_DeclaredTable[1][3]

C5_Join(path, sep) ==
    LET RECURSIVE join(_)
        join(k) == IF k = Len(path) THEN path[k] ELSE path[k] \o sep \o join(k + 1)
    IN join(1)

RECURSIVE C5_Leaves(_, _)
\* the <<key path, value>> pairs of the non-mapping values below items
C5_Leaves(items, prefix) ==
    UNION {IF items[i][2].kind = "dict"
           THEN C5_Leaves(items[i][2].items, Append(prefix, items[i][1]))
           ELSE {<<Append(prefix, items[i][1]), items[i][2]>>} : i \in 1..Len(items)}

\* C5: flatten_dict returns, for each non-mapping leaf, exactly the entry
\* whose key is the key path joined by sep and whose value is the leaf, and
\* no other entry.
C5_EntriesAreJoinedPaths ==
    (pc = "done" /\ op = "flatten_dict") =>
        {<<k, ret.value[k]>> : k \in DOMAIN ret.value}
            = {<<C5_Join(p[1], args.sep), p[2]>> :
                   p \in C5_Leaves(args.nested_dict, <<>>)}

C6_Count(s, v) == Cardinality({i \in 1..Len(s) : s[i] = v})

RECURSIVE C6_Factorial(_)
C6_Factorial(n) == IF n <= 1 THEN 1 ELSE n * C6_Factorial(n - 1)

RECURSIVE C6_GroupProduct(_, _)
C6_GroupProduct(s, values) ==
    IF values = {} THEN 1
    ELSE LET v == CHOOSE x \in values : TRUE
         IN C6_Factorial(C6_Count(s, v)) * C6_GroupProduct(s, values \ {v})

C6_Rearranges(s, nums) ==
    /\ Len(s) = Len(nums)
    /\ \A v \in Nums : C6_Count(s, v) = C6_Count(nums, v)

IsPermutations == pc = "done" /\ op = "unique_permutations"

\* C6: unique_permutations returns every distinct rearrangement of the input
\* exactly once and nothing else; their number is n! over the product of the
\* factorials of the sizes of the groups of equal elements.
C6_DistinctRearrangements ==
    IsPermutations =>
        LET nums == args.nums
            out == ret.value
        IN /\ \A k \in 1..Len(out) : C6_Rearranges(out[k], nums)
           /\ \A k, l \in 1..Len(out) : k /= l => out[k] /= out[l]
           /\ \A s \in [1..Len(nums) -> Nums] :
                  C6_Rearranges(s, nums) => \E k \in 1..Len(out) : out[k] = s
           /\ Len(out) * C6_GroupProduct(nums, Nums) = C6_Factorial(Len(nums))

\* an input of three elements, two of them equal, yields three sequences
C6_Witness ==
    /\ IsPermutations
    /\ Len(args.nums) = 3
    /\ Cardinality({args.nums[i] : i \in 1..3}) = 2
    /\ Len(ret.value) = 3

IsRotate == pc = "done" /\ op = "rotate_and_multiply_matrix"

C8_ChunksReversedInPlace ==
    (IsReverse /\ args.n >= 1) =>
        LET lst == args.lst
            n == args.n
            out == ret.value
        IN /\ ret.status = "ok"
           /\ Len(out) = Len(lst)
           /\ \A p \in 0..(Len(lst) - 1) :
                  LET c == p \div n
                      k == p % n
                      L == IF Len(lst) - c * n < n THEN Len(lst) - c * n ELSE n
                  IN out[p + 1] = lst[(c * n + (L - 1 - k)) + 1]
           /\ n >= Len(lst) =>
                  \A i \in 1..Len(lst) : out[i] = lst[Len(lst) + 1 - i]

\* a list cut into full chunks and a shorter last one, changed by the call
C8_Witness ==
    /\ IsReverse
    /\ calls = 1
    /\ args.n >= 2
    /\ Len(args.lst) > args.n
    /\ Len(args.lst) % args.n /= 0
    /\ ret.status = "ok"
    /\ ret.value /= args.lst

\* C9 as stated: twice with the same n is the identity when n divides the
\* length, and some list and some n >= 1 that does not divide its length
\* come back changed.
C9_NotAnInvolutionForUnevenChunks ==
    (IsReverse /\ calls = 2 /\ args.n >= 1) =>
        /\ Len(args.orig) % args.n = 0 => ret.value = args.orig
        /\ \E lst \in Lists, n \in 1..MaxChunk :
               /\ Len(lst) % n /= 0
               /\ reverse_by_n_elements(reverse_by_n_elements(lst, n).value, n).value
                      /= lst

\* C9 amended: twice with the same n >= 1 is the identity for every list,
\* whether or not n divides its length.
C9_TwiceIsIdentity ==
    (IsReverse /\ calls = 2 /\ args.n >= 1) =>
        (ret.status = "ok" /\ ret.value = args.orig)

\* an uneven chunking: the first call changed the list, the second undid it
C9_Witness ==
    /\ IsReverse
    /\ calls = 2
    /\ args.n >= 2
    /\ Len(args.orig) % args.n /= 0
    /\ args.lst /= args.orig
    /\ ret.value = args.orig

\* C10: every record gets toll_rate 0.5, whatever its timestamp.
C10_AlwaysHalf ==
    IsTimeToll =>
        \A r \in 1..Len(args.df["timestamp"]) :
            ret.value["toll_rate"][r] = [nan |-> FALSE, v |-> 5]

\* a record at 23:59, the threshold of the last entry, still gets 0.5
C10_Witness ==
    /\ IsTimeToll
    /\ \E r \in 1..Len(args.df["timestamp"]) :
        /\ C4_TimeOfDay(args.df, r) = 23 * 60 + 59
        /\ ret.value["toll_rate"][r].v = 5

====
